---- MODULE Spec2Model ----
(***************************************************************************)
(* A model of the AI Wargame engine of src/main.py: the board and units,   *)
(* the move classifier (is_valid_move), the action executor (perform_move),*)
(* the turn engine (human_turn, computer_turn, has_winner, the main loop)  *)
(* and the search entry point (suggest_move, minimax, random_move).        *)
(***************************************************************************)
EXTENDS Integers, Sequences, FiniteSets, TLC

(* ------------------------------------------------------------------------ *)
(* Enumerations (by their integer values, which index the tables).          *)

AI == 0
Tech == 1
Virus == 2
Program == 3
Firewall == 4

UnitTypes == {AI, Tech, Virus, Program, Firewall}

Attacker == 0
Defender == 1

Players == {Attacker, Defender}

\* Player.next
PlayerNext(p) == IF p = Attacker THEN Defender ELSE Attacker

\* GameType, by name
GameTypes == {"AttackerVsDefender", "AttackerVsComp", "CompVsDefender", "CompVsComp"}

\* Options.dim
Dim == 5

\* Options.min_depth
MinDepth == 2

\* Unit.health of a freshly constructed unit, and the upper clamp of mod_health
FullHealth == 9

MAX_HEURISTIC_SCORE == 2000000000
MIN_HEURISTIC_SCORE == -2000000000

(* ------------------------------------------------------------------------ *)
(* Units.  A cell holds a Unit record or None.                              *)

None == [player |-> -1, type |-> -1, health |-> -1]

Unit(p, t, h) == [player |-> p, type |-> t, health |-> h]

damage_table ==
  << <<3, 3, 3, 3, 1>>,
     <<1, 1, 6, 1, 1>>,
     <<9, 6, 1, 6, 1>>,
     <<3, 3, 3, 3, 1>>,
     <<1, 1, 1, 1, 1>> >>

repair_table ==
  << <<0, 1, 1, 0, 0>>,
     <<3, 0, 0, 3, 3>>,
     <<0, 0, 0, 0, 0>>,
     <<0, 0, 0, 0, 0>>,
     <<0, 0, 0, 0, 0>> >>

\* variant of is_alive that still counts a unit with no health left as alive
is_alive_at_zero(u) == u.health >= 0

is_alive(u) == u.health > 0

\* Unit.mod_health: add the delta, then clamp to [0,9]
Unit_mod_health(u, health_delta) ==
  LET h == u.health + health_delta
  IN  [u EXCEPT !.health = IF h < 0 THEN 0 ELSE IF h > 9 THEN 9 ELSE h]

\* variant of damage_amount that returns the table value, never clamped
damage_amount_unclamped(u, target) ==
  damage_table[u.type + 1][target.type + 1]

damage_amount(u, target) ==
  LET amount == damage_table[u.type + 1][target.type + 1]
  IN  IF target.health - amount < 0 THEN target.health ELSE amount

\* variant of repair_amount that returns the table value, never clamped
repair_amount_unclamped(u, target) ==
  repair_table[u.type + 1][target.type + 1]

repair_amount(u, target) ==
  LET amount == repair_table[u.type + 1][target.type + 1]
  IN  IF target.health + amount > 9 THEN 9 - target.health ELSE amount

(* ------------------------------------------------------------------------ *)
(* Coordinates.                                                             *)

Coord(r, c) == [row |-> r, col |-> c]

CoordPair(s, d) == [src |-> s, dst |-> d]

Cells == {Coord(r, c) : r \in 0..(Dim - 1), c \in 0..(Dim - 1)}

\* Coord.row_string / col_string: the character is modelled by its index in
\* the alphabet; a negative index counts from the end of the Python string,
\* and an index past the end gives '?', modelled as -1.
row_string(coord) ==
  IF coord.row < 26
  THEN (IF coord.row >= 0 THEN coord.row ELSE 26 + coord.row)
  ELSE -1

col_string(coord) ==
  IF coord.col < 16
  THEN (IF coord.col >= 0 THEN coord.col ELSE 16 + coord.col)
  ELSE -1

to_string(coord) == <<row_string(coord), col_string(coord)>>

\* Coord.iter_adjacent: top, left, bottom, right
iter_adjacent(coord) ==
  << Coord(coord.row - 1, coord.col),
     Coord(coord.row, coord.col - 1),
     Coord(coord.row + 1, coord.col),
     Coord(coord.row, coord.col + 1) >>

\* Coord.iter_range: the square of side 2*dist+1 around coord, row by row
iter_range(coord, dist) ==
  LET w == 2 * dist + 1
  IN  [i \in 1..(w * w) |->
         Coord(coord.row - dist + ((i - 1) \div w),
               coord.col - dist + ((i - 1) % w))]

\* CoordPair.from_dim(dim).iter_rectangle(): every cell, row by row
iter_rectangle ==
  [i \in 1..(Dim * Dim) |-> Coord((i - 1) \div Dim, (i - 1) % Dim)]

SeqToSet(s) == {s[i] : i \in DOMAIN s}

(* ------------------------------------------------------------------------ *)
(* The game state as a value: the fields of Game that perform_move and the  *)
(* search read or write.                                                    *)

is_valid_coord(coord) ==
  ~(coord.row < 0 \/ coord.row >= Dim \/ coord.col < 0 \/ coord.col >= Dim)

get(g, coord) == IF is_valid_coord(coord) THEN g.board[coord] ELSE None

set(g, coord, unit) ==
  IF is_valid_coord(coord)
  THEN [g EXCEPT !.board = [g.board EXCEPT ![coord] = unit]]
  ELSE g

\* variant of remove_dead that takes the unit off the board and leaves the
\* commander flags alone
remove_dead_flag_kept(g, coord) ==
  LET unit == get(g, coord)
  IN  IF unit # None /\ ~is_alive(unit) THEN set(g, coord, None) ELSE g

remove_dead(g, coord) ==
  LET unit == get(g, coord)
  IN  IF unit # None /\ ~is_alive(unit)
      THEN LET g1 == set(g, coord, None)
           IN  IF unit.type = AI
               THEN IF unit.player = Attacker
                    THEN [g1 EXCEPT !.attacker_has_ai = FALSE]
                    ELSE [g1 EXCEPT !.defender_has_ai = FALSE]
               ELSE g1
      ELSE g

mod_health(g, coord, health_delta) ==
  LET target == get(g, coord)
  IN  IF target # None
      THEN remove_dead(set(g, coord, Unit_mod_health(target, health_delta)), coord)
      ELSE g

\* variant of engaged_in_combat that never finds an enemy
engaged_in_combat_never(g, coord) == FALSE

engaged_in_combat(g, coord) ==
  \E i \in 1..4 :
     LET enemy == get(g, iter_adjacent(coord)[i])
     IN  enemy # None /\ enemy.player # get(g, coord).player

(* ------------------------------------------------------------------------ *)
(* The move classifier.  The result carries the accept flag, the value of   *)
(* Game.move_id after the call and the source line of the return taken.     *)

Verdict(ok, id, line) == [ok |-> ok, move_id |-> id, line |-> line]

\* variant of is_valid_step with the sides' directions exchanged: the
\* Attacker down or right, the Defender up or left
is_valid_step_exchanged(g, coords) ==
  LET unit_type == get(g, coords.src).type
      player_type == get(g, coords.src).player
      top_adjacent_coord == to_string(Coord(coords.src.row - 1, coords.src.col))
      left_adjacent_coord == to_string(Coord(coords.src.row, coords.src.col - 1))
      bottom_adjacent_coord == to_string(Coord(coords.src.row + 1, coords.src.col))
      right_adjacent_coord == to_string(Coord(coords.src.row, coords.src.col + 1))
  IN  IF unit_type \in {1, 2}
      THEN Verdict(TRUE, 0, 357)
      ELSE IF engaged_in_combat(g, coords.src)
      THEN Verdict(FALSE, g.move_id, 363)
      ELSE IF player_type = Defender
              /\ to_string(coords.dst) \in {top_adjacent_coord, left_adjacent_coord}
      THEN Verdict(TRUE, 0, 380)
      ELSE IF player_type = Attacker
              /\ to_string(coords.dst) \in {bottom_adjacent_coord, right_adjacent_coord}
      THEN Verdict(TRUE, 0, 388)
      ELSE Verdict(FALSE, g.move_id, 391)

\* the branch of is_valid_move for an adjacent, empty destination
is_valid_step(g, coords) ==
  LET unit_type == get(g, coords.src).type
      player_type == get(g, coords.src).player
      top_adjacent_coord == to_string(Coord(coords.src.row - 1, coords.src.col))
      left_adjacent_coord == to_string(Coord(coords.src.row, coords.src.col - 1))
      bottom_adjacent_coord == to_string(Coord(coords.src.row + 1, coords.src.col))
      right_adjacent_coord == to_string(Coord(coords.src.row, coords.src.col + 1))
  IN  IF unit_type \in {1, 2}
      THEN Verdict(TRUE, 0, 357)
      ELSE IF engaged_in_combat(g, coords.src)
      THEN Verdict(FALSE, g.move_id, 363)
      ELSE IF player_type = Attacker
              /\ to_string(coords.dst) \in {top_adjacent_coord, left_adjacent_coord}
      THEN Verdict(TRUE, 0, 380)
      ELSE IF player_type = Defender
              /\ to_string(coords.dst) \in {bottom_adjacent_coord, right_adjacent_coord}
      THEN Verdict(TRUE, 0, 388)
      ELSE Verdict(FALSE, g.move_id, 391)

\* the branch of is_valid_move for an adjacent, occupied destination
is_valid_target(g, coords) ==
  LET unit == get(g, coords.dst)
  IN  IF unit.player = get(g, coords.src).player
      THEN LET health_delta == repair_amount(get(g, coords.src), unit)
           IN  IF health_delta = 0
               THEN Verdict(FALSE, g.move_id, 401)
               ELSE Verdict(TRUE, 1, 405)
      ELSE Verdict(TRUE, 2, 410)

\* variant of is_valid_move that tests engagement in combat before it looks
\* at the destination: an engaged AI, Program or Firewall may do nothing
is_valid_move_engaged_first(g, coords) ==
  IF ~is_valid_coord(coords.src) \/ ~is_valid_coord(coords.dst)
  THEN Verdict(FALSE, g.move_id, 336)
  ELSE IF get(g, coords.src) = None \/ get(g, coords.src).player # g.next_player
  THEN Verdict(FALSE, g.move_id, 340)
  ELSE IF get(g, coords.src).type \notin {1, 2} /\ engaged_in_combat(g, coords.src)
  THEN Verdict(FALSE, g.move_id, 363)
  ELSE LET unit == get(g, coords.dst)
           is_adjacent_coord == coords.dst \in SeqToSet(iter_adjacent(coords.src))
       IN  IF is_adjacent_coord
           THEN IF unit = None
                THEN is_valid_step(g, coords)
                ELSE is_valid_target(g, coords)
           ELSE IF coords.src = coords.dst
           THEN Verdict(TRUE, 3, 415)
           ELSE Verdict(FALSE, g.move_id, 419)

\* variant of is_valid_move that does not compare the owner of the source
\* unit with the side to move
is_valid_move_any_owner(g, coords) ==
  IF ~is_valid_coord(coords.src) \/ ~is_valid_coord(coords.dst)
  THEN Verdict(FALSE, g.move_id, 336)
  ELSE IF get(g, coords.src) = None
  THEN Verdict(FALSE, g.move_id, 340)
  ELSE LET unit == get(g, coords.dst)
           is_adjacent_coord == coords.dst \in SeqToSet(iter_adjacent(coords.src))
       IN  IF is_adjacent_coord
           THEN IF unit = None
                THEN is_valid_step(g, coords)
                ELSE is_valid_target(g, coords)
           ELSE IF coords.src = coords.dst
           THEN Verdict(TRUE, 3, 415)
           ELSE Verdict(FALSE, g.move_id, 419)

is_valid_move(g, coords) ==
  IF ~is_valid_coord(coords.src) \/ ~is_valid_coord(coords.dst)
  THEN Verdict(FALSE, g.move_id, 336)
  ELSE IF get(g, coords.src) = None \/ get(g, coords.src).player # g.next_player
  THEN Verdict(FALSE, g.move_id, 340)
  ELSE LET unit == get(g, coords.dst)
           is_adjacent_coord == coords.dst \in SeqToSet(iter_adjacent(coords.src))
       IN  IF is_adjacent_coord
           THEN IF unit = None
                THEN is_valid_step(g, coords)
                ELSE is_valid_target(g, coords)
           ELSE IF coords.src = coords.dst
           THEN Verdict(TRUE, 3, 415)
           ELSE Verdict(FALSE, g.move_id, 419)

(* ------------------------------------------------------------------------ *)
(* The action executor.                                                     *)

\* variant of case 0 that leaves the unit on its source cell as well
perform_movement_source_kept(g, coords) ==
  set(g, coords.dst, get(g, coords.src))

\* case 0
perform_movement(g, coords) ==
  set(set(g, coords.dst, get(g, coords.src)), coords.src, None)

\* case 1
perform_repair(g, coords) ==
  LET health_delta == repair_amount(get(g, coords.src), get(g, coords.dst))
  IN  mod_health(g, coords.dst, health_delta)

\* variant of case 2 in which the destination is hit first and returns fire
\* only if it is still on the board
perform_attack_in_sequence(g, coords) ==
  LET damage_to_opponent == damage_amount(get(g, coords.src), get(g, coords.dst))
      g1 == mod_health(g, coords.dst, -damage_to_opponent)
  IN  IF get(g1, coords.dst) = None
      THEN g1
      ELSE mod_health(g1, coords.src,
                      -damage_amount(get(g1, coords.dst), get(g1, coords.src)))

\* case 2
perform_attack(g, coords) ==
  LET damage_to_opponent == damage_amount(get(g, coords.src), get(g, coords.dst))
      damage_from_opponent == damage_amount(get(g, coords.dst), get(g, coords.src))
      g1 == mod_health(g, coords.src, -damage_from_opponent)
      g2 == mod_health(g1, coords.dst, -damage_to_opponent)
  IN  remove_dead(remove_dead(g2, coords.src), coords.dst)

\* one iteration of the loop of case 3
self_destruct_step(g, coords, coord) ==
  LET g1 == IF to_string(coord) = to_string(coords.src)
            THEN mod_health(g, coord, -(get(g, coord).health))
            ELSE IF is_valid_coord(coord) /\ get(g, coord) # None
            THEN mod_health(g, coord, -2)
            ELSE g
  IN  remove_dead(g1, coord)

RECURSIVE self_destruct_loop(_, _, _, _)
self_destruct_loop(g, coords, surrounding_units, i) ==
  IF i > Len(surrounding_units)
  THEN g
  ELSE self_destruct_loop(self_destruct_step(g, coords, surrounding_units[i]),
                          coords, surrounding_units, i + 1)

\* variant of case 3 whose blast reaches the four orthogonal neighbours only
perform_self_destruct_orthogonal(g, coords) ==
  self_destruct_loop(g, coords, <<coords.src>> \o iter_adjacent(coords.src), 1)

\* case 3
perform_self_destruct(g, coords) ==
  self_destruct_loop(g, coords, iter_range(coords.src, 1), 1)

\* variant of perform_move that self-destructs whenever the move_id left by
\* an earlier call is 3, whatever the classification of this move
perform_move_stale_self_destruct(g, coords) ==
  LET v == is_valid_move(g, coords)
      g0 == [g EXCEPT !.move_id = v.move_id]
  IN  IF v.ok
      THEN [ok |-> TRUE, line |-> v.line,
            g |-> CASE g.move_id = 3 -> perform_self_destruct(g0, coords)
                    [] v.move_id = 0 -> perform_movement(g0, coords)
                    [] v.move_id = 1 -> perform_repair(g0, coords)
                    [] v.move_id = 2 -> perform_attack(g0, coords)
                    [] OTHER -> g0]
      ELSE [ok |-> FALSE, line |-> v.line, g |-> g0]

\* perform_move: [ok, g, line]; g is the game after the call
perform_move(g, coords) ==
  LET v == is_valid_move(g, coords)
      g0 == [g EXCEPT !.move_id = v.move_id]
  IN  IF v.ok
      THEN [ok |-> TRUE, line |-> v.line,
            g |-> CASE v.move_id = 0 -> perform_movement(g0, coords)
                    [] v.move_id = 1 -> perform_repair(g0, coords)
                    [] v.move_id = 2 -> perform_attack(g0, coords)
                    [] v.move_id = 3 -> perform_self_destruct(g0, coords)
                    [] OTHER -> g0]
      ELSE [ok |-> FALSE, line |-> v.line, g |-> g0]

\* variant of next_turn that hands the turn over without counting it
next_turn_uncounted(g) == [g EXCEPT !.next_player = PlayerNext(g.next_player)]

\* variant of next_turn that counts the turn and leaves the same side to move
next_turn_same_player(g) == [g EXCEPT !.turns_played = g.turns_played + 1]

\* Game.next_turn
next_turn(g) ==
  [g EXCEPT !.next_player = PlayerNext(g.next_player),
            !.turns_played = g.turns_played + 1]

\* Game.__post_init__: the starting layout
StartBoard ==
  LET md == Dim - 1
      placed ==
        << <<Coord(0, 0), Unit(Defender, AI, FullHealth)>>,
           <<Coord(1, 0), Unit(Defender, Tech, FullHealth)>>,
           <<Coord(0, 1), Unit(Defender, Tech, FullHealth)>>,
           <<Coord(2, 0), Unit(Defender, Firewall, FullHealth)>>,
           <<Coord(0, 2), Unit(Defender, Firewall, FullHealth)>>,
           <<Coord(1, 1), Unit(Defender, Program, FullHealth)>>,
           <<Coord(md, md), Unit(Attacker, AI, FullHealth)>>,
           <<Coord(md - 1, md), Unit(Attacker, Virus, FullHealth)>>,
           <<Coord(md, md - 1), Unit(Attacker, Virus, FullHealth)>>,
           <<Coord(md - 2, md), Unit(Attacker, Program, FullHealth)>>,
           <<Coord(md, md - 2), Unit(Attacker, Program, FullHealth)>>,
           <<Coord(md - 1, md - 1), Unit(Attacker, Firewall, FullHealth)>> >>
  IN  [c \in Cells |->
         IF \E i \in DOMAIN placed : placed[i][1] = c
         THEN LET k == CHOOSE i \in DOMAIN placed :
                          /\ placed[i][1] = c
                          /\ \A j \in DOMAIN placed : placed[j][1] = c => j <= i
              IN  placed[k][2]
         ELSE None]

\* the Game a fresh construction yields
NewGame ==
  [board |-> StartBoard, next_player |-> Attacker, turns_played |-> 0,
   attacker_has_ai |-> TRUE, defender_has_ai |-> TRUE, move_id |-> 0]

(* ------------------------------------------------------------------------ *)
(* Win detection and the heuristic.                                         *)

NoWinner == -1

\* variant of has_winner whose turn limit is passed only once it is exceeded
has_winner_past_limit(g, max_turns) ==
  IF g.turns_played > max_turns
  THEN Defender
  ELSE IF g.attacker_has_ai
  THEN (IF g.defender_has_ai THEN NoWinner ELSE Attacker)
  ELSE Defender

\* variant of has_winner that looks at the Defender's commander first
has_winner_defender_first(g, max_turns) ==
  IF g.turns_played >= max_turns
  THEN Defender
  ELSE IF g.defender_has_ai
  THEN (IF g.attacker_has_ai THEN NoWinner ELSE Defender)
  ELSE Attacker

\* variant of has_winner that looks at the commander flags before the turn
\* limit
has_winner_flags_first(g, max_turns) ==
  IF ~g.attacker_has_ai
  THEN Defender
  ELSE IF ~g.defender_has_ai
  THEN Attacker
  ELSE IF g.turns_played >= max_turns
  THEN Defender
  ELSE NoWinner

\* Game.has_winner; None is modelled as NoWinner
has_winner(g, max_turns) ==
  IF g.turns_played >= max_turns
  THEN Defender
  ELSE IF g.attacker_has_ai
  THEN (IF g.defender_has_ai THEN NoWinner ELSE Attacker)
  ELSE Defender

is_finished(g, max_turns) == has_winner(g, max_turns) # NoWinner

\* Game.player_units, as the sequence of coordinates in scan order
RECURSIVE player_units_from(_, _, _)
player_units_from(g, player, i) ==
  IF i > Dim * Dim
  THEN << >>
  ELSE LET unit == get(g, iter_rectangle[i])
       IN  (IF unit # None /\ unit.player = player
            THEN <<iter_rectangle[i]>>
            ELSE << >>) \o player_units_from(g, player, i + 1)

player_units(g, player) == player_units_from(g, player, 1)

\* the defaultdict counter of get_heuristic_e0
unit_count(g, player, type) ==
  Cardinality({c \in Cells : g.board[c] # None /\ g.board[c].player = player
                             /\ g.board[c].type = type})

\* variant of the weighted sum in which an AI weighs as much as any unit
weighted_total_flat(g, player) ==
  3 * unit_count(g, player, Virus) + 3 * unit_count(g, player, Tech)
  + 3 * unit_count(g, player, Firewall) + 3 * unit_count(g, player, Program)
  + 3 * unit_count(g, player, AI)

weighted_total(g, player) ==
  3 * unit_count(g, player, Virus) + 3 * unit_count(g, player, Tech)
  + 3 * unit_count(g, player, Firewall) + 3 * unit_count(g, player, Program)
  + 9999 * unit_count(g, player, AI)

\* variant of get_heuristic_e0 that always scores from the Attacker's side
get_heuristic_e0_one_sided(g) ==
  weighted_total(g, Attacker) - weighted_total(g, Defender)

get_heuristic_e0(g) ==
  IF g.attacker_has_ai
  THEN weighted_total(g, Attacker) - weighted_total(g, Defender)
  ELSE weighted_total(g, Defender) - weighted_total(g, Attacker)

(* ------------------------------------------------------------------------ *)
(* Candidate generation and the search.                                     *)

\* the move standing for None where a move is expected; its coordinates are
\* none that a response of the broker carries
NoMove == CoordPair(Coord(0 - Dim, 0 - Dim), Coord(0 - Dim, 0 - Dim))

\* Game.clone: a copy of every field, the board copied cell by cell
clone(g) ==
  [board |-> [c \in Cells |-> g.board[c]], next_player |-> g.next_player,
   turns_played |-> g.turns_played, attacker_has_ai |-> g.attacker_has_ai,
   defender_has_ai |-> g.defender_has_ai, move_id |-> g.move_id]

\* The generator move_candidates, resumed on game g from its position: i is
\* the index in scan order of the source being expanded (0 before the first),
\* k the next destination to try (1..4 the adjacent cells, 5 the source
\* itself, 6 when the source is exhausted).  It runs to its next yield and
\* gives [done, move, i, k, g]; g carries the move_id is_valid_move left.
RECURSIVE move_candidates_next(_, _, _)
move_candidates_next(g, i, k) ==
  IF i = 0 \/ k > 5
  THEN IF i + 1 > Dim * Dim
       THEN [done |-> TRUE, move |-> CoordPair(Coord(0, 0), Coord(0, 0)),
             i |-> i, k |-> k, g |-> g]
       ELSE LET unit == get(g, iter_rectangle[i + 1])
            IN  IF unit # None /\ unit.player = g.next_player
                THEN move_candidates_next(g, i + 1, 1)
                ELSE move_candidates_next(g, i + 1, 6)
  ELSE LET src == iter_rectangle[i]
       IN  IF k = 5
           THEN [done |-> FALSE, move |-> CoordPair(src, src), i |-> i, k |-> 6, g |-> g]
           ELSE LET move == CoordPair(src, iter_adjacent(src)[k])
                    v == is_valid_move(g, move)
                    g1 == [g EXCEPT !.move_id = v.move_id]
                IN  IF v.ok
                    THEN [done |-> FALSE, move |-> move, i |-> i, k |-> k + 1, g |-> g1]
                    ELSE move_candidates_next(g1, i, k + 1)

\* list(self.move_candidates()): [moves, g]
RECURSIVE move_candidates_list(_, _, _)
move_candidates_list(g, i, k) ==
  LET n == move_candidates_next(g, i, k)
  IN  IF n.done
      THEN [moves |-> << >>, g |-> n.g]
      ELSE LET rest == move_candidates_list(n.g, n.i, n.k)
           IN  [moves |-> <<n.move>> \o rest.moves, g |-> rest.g]

\* variant of the candidate list without the moves of a unit onto its own
\* cell
move_candidates_no_self_destruct(g) ==
  LET all == move_candidates_list(g, 0, 0)
  IN  [moves |-> SelectSeq(all.moves, LAMBDA m : m.src # m.dst), g |-> all.g]

move_candidates(g) == move_candidates_list(g, 0, 0)

\* What a call of minimax returns: a (score, None) tuple, a bare int, None,
\* or it raises TypeError (max/min of an int with a tuple or with None).
RetTuple(score) == [kind |-> "tuple", value |-> score]
RetInt(v) == [kind |-> "int", value |-> v]
RetNone == [kind |-> "None", value |-> 0]
RaisedTypeError == [kind |-> "TypeError", value |-> 0]

\* Game.minimax on the game it is called on, which it mutates: [ret, g]
RECURSIVE minimax(_, _, _, _)
RECURSIVE minimax_loop(_, _, _, _, _, _, _)
minimax(g, depth, maximizing_player, max_turns) ==
  IF depth = 0 \/ is_finished(g, max_turns)
  THEN [ret |-> RetTuple(get_heuristic_e0(g)), g |-> g]
  ELSE minimax_loop(g, depth, maximizing_player, max_turns, 0, 0,
                    IF maximizing_player THEN MIN_HEURISTIC_SCORE
                    ELSE MAX_HEURISTIC_SCORE)

\* the for loop of minimax, resumed with the generator at (i, k)
minimax_loop(g, depth, maximizing_player, max_turns, i, k, best_move) ==
  LET n == move_candidates_next(g, i, k)
  IN  IF n.done
      THEN [ret |-> IF maximizing_player THEN RetInt(best_move) ELSE RetNone,
            g |-> n.g]
      ELSE LET g1 == set(n.g, n.move.dst, get(n.g, n.move.src))
               child == minimax(g1, depth - 1, ~maximizing_player, max_turns)
           IN  IF child.ret.kind # "int"
               THEN [ret |-> RaisedTypeError, g |-> child.g]
               ELSE minimax_loop(child.g, depth, maximizing_player, max_turns,
                                 n.i, n.k,
                                 IF maximizing_player
                                 THEN (IF child.ret.value > best_move
                                       THEN child.ret.value ELSE best_move)
                                 ELSE (IF child.ret.value < best_move
                                       THEN child.ret.value ELSE best_move))

\* variant of search_depth with the two configured depths exchanged
search_depth_exchanged(g, max_depth) ==
  LET initial_heuristic == get_heuristic_e0(g)
  IN  IF initial_heuristic > 0
      THEN MinDepth
      ELSE IF initial_heuristic < 0
      THEN max_depth
      ELSE (max_depth + MinDepth) \div 2

\* the depth suggest_move searches to
search_depth(g, max_depth) ==
  LET initial_heuristic == get_heuristic_e0(g)
  IN  IF initial_heuristic > 0
      THEN max_depth
      ELSE IF initial_heuristic < 0
      THEN MinDepth
      ELSE (max_depth + MinDepth) \div 2

\* the search half of suggest_move: minimax on a clone of the live game
suggest_search(g, max_depth, max_turns) ==
  minimax(clone(g), search_depth(g, max_depth), TRUE, max_turns)

\* Game.random_move: any of the candidates (the shuffle), or no move
random_move(g) == move_candidates(g)

\* variant of suggest_move that searches the game it is called on
suggest_move_in_place(g, opts) ==
  LET searched == minimax(g, search_depth(g, opts.max_depth), TRUE, opts.max_turns)
  IN  IF searched.ret = RaisedTypeError
      THEN [raised |-> TRUE, moves |-> {}, g |-> searched.g,
            board_copy |-> searched.g]
      ELSE LET drawn == random_move(searched.g)
           IN  [raised |-> FALSE,
                moves |-> IF Len(drawn.moves) = 0 THEN {NoMove}
                          ELSE SeqToSet(drawn.moves),
                g |-> drawn.g, board_copy |-> searched.g]

\* Game.suggest_move on game g with options opts: whether it raised, the
\* moves it may return (NoMove for None), the game g after the call and the
\* clone board_copy after the search
suggest_move(g, opts) ==
  LET board_copy == clone(g)
      searched == minimax(board_copy, search_depth(g, opts.max_depth), TRUE,
                          opts.max_turns)
  IN  IF searched.ret = RaisedTypeError
      THEN [raised |-> TRUE, moves |-> {}, g |-> g, board_copy |-> searched.g]
      ELSE LET drawn == random_move(g)
           IN  [raised |-> FALSE,
                moves |-> IF Len(drawn.moves) = 0 THEN {NoMove}
                          ELSE SeqToSet(drawn.moves),
                g |-> drawn.g, board_copy |-> searched.g]

(* ------------------------------------------------------------------------ *)
(* Starting positions.  Besides the fresh game, runs are followed from two  *)
(* mid-game positions, each reached from the fresh game by the listed       *)
(* moves <<src.row, src.col, dst.row, dst.col>>, every one of them accepted *)
(* by perform_move and followed by next_turn.                               *)

\* 31 turns: both commanders left adjacent and weakened, two more units
LateGameMoves ==
  <<
     <<3, 3, 3, 3>>, <<0, 2, 0, 3>>, <<4, 4, 4, 3>>, <<0, 3, 0, 4>>, <<4, 3, 4, 3>>, <<2, 0, 2, 1>>,
     <<3, 4, 3, 3>>, <<0, 1, 0, 1>>, <<2, 4, 1, 4>>, <<0, 4, 1, 4>>, <<4, 4, 4, 3>>, <<2, 1, 2, 2>>,
     <<3, 3, 2, 3>>, <<0, 0, 0, 1>>, <<2, 3, 2, 4>>, <<0, 1, 0, 2>>, <<4, 3, 3, 3>>, <<1, 1, 2, 1>>,
     <<4, 2, 4, 1>>, <<0, 2, 1, 2>>, <<2, 4, 3, 4>>, <<2, 1, 3, 1>>, <<3, 3, 2, 3>>, <<3, 1, 4, 1>>,
     <<3, 4, 3, 3>>, <<2, 2, 2, 2>>, <<3, 3, 3, 4>>, <<1, 2, 1, 3>>, <<3, 4, 3, 4>>, <<1, 0, 1, 0>>,
     <<4, 1, 4, 1>> >>

\* 26 turns: seven units, six of them wounded; the Defender's commander
\* beside its Tech and its Firewall, an Attacker's Virus next to the Tech
MidGameMoves ==
  <<
     <<2, 4, 1, 4>>, <<1, 1, 2, 1>>, <<1, 4, 1, 3>>, <<1, 0, 1, 1>>, <<4, 2, 4, 1>>, <<1, 1, 1, 1>>,
     <<3, 3, 2, 3>>, <<0, 1, 1, 1>>, <<4, 1, 3, 1>>, <<0, 0, 0, 1>>, <<4, 3, 4, 2>>, <<1, 1, 1, 0>>,
     <<1, 3, 0, 3>>, <<0, 2, 0, 3>>, <<3, 1, 2, 1>>, <<1, 0, 1, 1>>, <<2, 3, 2, 3>>, <<2, 1, 3, 1>>,
     <<4, 2, 4, 1>>, <<2, 1, 3, 1>>, <<4, 4, 4, 3>>, <<2, 0, 3, 0>>, <<4, 1, 3, 1>>, <<0, 2, 0, 3>>,
     <<3, 1, 2, 1>>, <<3, 0, 3, 0>> >>

RECURSIVE Replay(_, _, _)
Replay(g, moves, i) ==
  IF i > Len(moves)
  THEN g
  ELSE LET m == moves[i]
           r == perform_move(g, CoordPair(Coord(m[1], m[2]), Coord(m[3], m[4])))
       IN  IF r.ok THEN Replay(next_turn(r.g), moves, i + 1) ELSE g

StartGames ==
  {NewGame, Replay(NewGame, LateGameMoves, 1), Replay(NewGame, MidGameMoves, 1)}

(* ------------------------------------------------------------------------ *)
(* Inputs.                                                                  *)

\* how many turns past its starting position a run is followed
Horizon == 2

\* how far outside the board a coordinate relayed by the broker may lie
Margin == 1

\* the destinations tried for a source: the 3x3 square around it (itself, its
\* four neighbours, the diagonals) and two cells two steps away
NearDsts(src) ==
  SeqToSet(iter_range(src, 1))
  \cup {Coord(src.row - 2, src.col), Coord(src.row, src.col + 2)}

WireCells ==
  {Coord(r, c) : r \in (0 - Margin)..(Dim - 1 + Margin),
                 c \in (0 - Margin)..(Dim - 1 + Margin)}

\* read_move: a pair of coordinates, both inside the board
KeyboardMoves ==
  {CoordPair(s, d) : s \in Cells, d \in Cells} \cap
  UNION {{CoordPair(s, d) : d \in NearDsts(s)} : s \in Cells}

\* the board cell nearest to a coordinate
Nearest(c) ==
  Coord(IF c.row < 0 THEN 0 ELSE IF c.row >= Dim THEN Dim - 1 ELSE c.row,
        IF c.col < 0 THEN 0 ELSE IF c.col >= Dim THEN Dim - 1 ELSE c.col)

\* moves the broker may relay, any coordinates: from a cell of the board to
\* the destinations near it, which lie outside the board for some; from
\* outside the board to the source itself and to the nearest board cell
WireMoves ==
  UNION {{CoordPair(s, d) : d \in NearDsts(s)} : s \in Cells}
  \cup {CoordPair(s, s) : s \in WireCells \ Cells}
  \cup {CoordPair(s, Nearest(s)) : s \in WireCells \ Cells}
  \cup {CoordPair(Nearest(s), s) : s \in WireCells \ Cells}

(* ------------------------------------------------------------------------ *)
(* The running program.                                                     *)

VARIABLES
  board,            \* Game.board
  next_player,      \* Game.next_player
  turns_played,     \* Game.turns_played
  attacker_has_ai,  \* Game._attacker_has_ai
  defender_has_ai,  \* Game._defender_has_ai
  move_id,          \* Game.move_id
  options,          \* Game.options: game_type, broker, max_depth, max_turns
  pc,               \* where main is: "loop", "over", "exit1", "TypeError"
  posted,           \* the broker: the data of the last POST it took
  prev,             \* history: the game before the last turn attempt
  last              \* history: what the last turn attempt did

vars == <<board, next_player, turns_played, attacker_has_ai, defender_has_ai,
          move_id, options, pc, posted, prev, last>>

\* the live Game as a value
Live ==
  [board |-> board, next_player |-> next_player, turns_played |-> turns_played,
   attacker_has_ai |-> attacker_has_ai, defender_has_ai |-> defender_has_ai,
   move_id |-> move_id]

SetLive(g) ==
  /\ board' = g.board
  /\ next_player' = g.next_player
  /\ turns_played' = g.turns_played
  /\ attacker_has_ai' = g.attacker_has_ai
  /\ defender_has_ai' = g.defender_has_ai
  /\ move_id' = g.move_id

Attempt(op, called, ok, line, move) ==
  [op |-> op, called |-> called, ok |-> ok, line |-> line, move |-> move]

\* the broker before any move was posted to it: its data is null
NoData == [has_data |-> FALSE, move |-> NoMove, turn |-> 0]

\* variant of post_move_to_broker that numbers the move with the turn to come
post_move_to_broker_turn_ahead(g, broker, move, held) ==
  IF ~broker
  THEN {held}
  ELSE {held, [has_data |-> TRUE, move |-> move, turn |-> g.turns_played + 1]}

\* Game.post_move_to_broker on game g: what the broker may hold after the
\* call, having held `held`; a POST that fails leaves the broker as it was
post_move_to_broker(g, broker, move, held) ==
  IF ~broker
  THEN {held}
  ELSE {held, [has_data |-> TRUE, move |-> move, turn |-> g.turns_played]}

\* the answer of the broker to a GET when it relays the data it holds
Relayed(data) ==
  [raises |-> FALSE, status |-> 200, success |-> TRUE,
   has_data |-> data.has_data, turn |-> data.turn, move |-> data.move]

\* the option sets a run starts with (main, lines 796-822): every game
\* type, with and without a broker; max_depth is the default or 0, and is
\* varied only where a computer plays, since only suggest_move reads it
OptionSets ==
  {[game_type |-> gt, broker |-> b, max_depth |-> d] :
     gt \in GameTypes, b \in BOOLEAN, d \in {0, 4}}
  \ {[game_type |-> "AttackerVsDefender", broker |-> b, max_depth |-> 0] :
     b \in BOOLEAN}

Init ==
  /\ \E g \in StartGames : \E o \in OptionSets :
        /\ board = g.board
        /\ next_player = g.next_player
        /\ turns_played = g.turns_played
        /\ attacker_has_ai = g.attacker_has_ai
        /\ defender_has_ai = g.defender_has_ai
        /\ move_id = g.move_id
        /\ options = [game_type |-> o.game_type, broker |-> o.broker,
                      max_depth |-> o.max_depth,
                      max_turns |-> g.turns_played + Horizon]
        /\ prev = g
  /\ pc = "loop"
  /\ posted = NoData
  /\ last = Attempt("init", FALSE, FALSE, 0, NoMove)

\* main, lines 862-871: is the side to move played by human_turn
human_to_move ==
  \/ options.game_type = "AttackerVsDefender"
  \/ options.game_type = "AttackerVsComp" /\ next_player = Attacker
  \/ options.game_type = "CompVsDefender" /\ next_player = Defender

\* variant of TurnStarts that dispatches a turn without looking for a winner
TurnStarts_unchecked == pc = "loop"

\* main reached the dispatch of a turn: the loop runs and no winner was found
TurnStarts ==
  /\ pc = "loop"
  /\ has_winner(Live, options.max_turns) = NoWinner

\* the return statements of is_valid_move that reject
RejectLines == {336, 340, 363, 391, 401, 419}

\* perform_move(mv) on game g and, when it succeeds, next_turn; a rejected
\* move leaves only the line that rejected it
PlayMoves(op, g, moves) ==
  LET verdicts == [mv \in moves |-> is_valid_move(g, mv)]
  IN  \/ \E mv \in moves :
            /\ verdicts[mv].ok
            /\ LET r == perform_move(g, mv)
               IN  /\ SetLive(next_turn(r.g))
                   /\ last' = Attempt(op, TRUE, TRUE, r.line, mv)
      \/ \E line \in {verdicts[mv].line : mv \in moves} \cap RejectLines :
            /\ SetLive(g)
            /\ last' = Attempt(op, TRUE, FALSE, line, NoMove)

\* what the broker answers to the GET of get_move_from_broker
BrokerResponses(t) ==
  {[raises |-> TRUE, status |-> 0, success |-> FALSE, has_data |-> FALSE,
    turn |-> 0, move |-> NoMove]}
  \cup {[raises |-> FALSE, status |-> st, success |-> su, has_data |-> FALSE,
         turn |-> 0, move |-> NoMove] :
          st \in {200, 500}, su \in BOOLEAN}
  \cup {[raises |-> FALSE, status |-> st, success |-> su, has_data |-> TRUE,
         turn |-> tn, move |-> mv] :
          st \in {200, 500}, su \in BOOLEAN, tn \in {t, t + 1}, mv \in WireMoves}

\* variant of get_move_from_broker that takes the data of any turn
get_move_from_broker_any_turn(g, resp) ==
  IF resp.raises
  THEN NoMove
  ELSE IF resp.status = 200 /\ resp.success
  THEN (IF resp.has_data THEN resp.move ELSE NoMove)
  ELSE NoMove

\* Game.get_move_from_broker: the move, or NoMove for None
get_move_from_broker(g, resp) ==
  IF resp.raises
  THEN NoMove
  ELSE IF resp.status = 200 /\ resp.success
  THEN IF resp.has_data
       THEN (IF resp.turn = g.turns_played + 1 THEN resp.move ELSE NoMove)
       ELSE NoMove
  ELSE NoMove

\* one pass of the keyboard loop of human_turn
HumanTurn ==
  /\ TurnStarts
  /\ human_to_move
  /\ ~options.broker
  /\ PlayMoves("human", Live, KeyboardMoves)
  /\ prev' = Live
  /\ UNCHANGED <<options, pc, posted>>

\* one pass of the broker loop of human_turn
BrokerTurn ==
  /\ TurnStarts
  /\ human_to_move
  /\ options.broker
  /\ LET got == {get_move_from_broker(Live, resp) :
                    resp \in BrokerResponses(turns_played) \cup {Relayed(posted)}}
     IN  \/ PlayMoves("broker", Live, got \ {NoMove})
         \/ /\ NoMove \in got
            /\ SetLive(Live)
            /\ last' = Attempt("broker", FALSE, FALSE, 0, NoMove)
  /\ prev' = Live
  /\ UNCHANGED <<options, pc, posted>>

\* computer_turn and what main does with its result (lines 873-883): a
\* move is posted to the broker, no move ends the program
ComputerTurn ==
  /\ TurnStarts
  /\ ~human_to_move
  /\ prev' = Live
  /\ UNCHANGED options
  /\ \E suggested \in {suggest_move(Live, options)} :
        IF suggested.raised
        THEN /\ pc' = "TypeError"
             /\ SetLive(suggested.g)
             /\ last' = Attempt("computer", FALSE, FALSE, 0, NoMove)
             /\ posted' = posted
        ELSE IF suggested.moves = {NoMove}
        THEN /\ pc' = "exit1"
             /\ SetLive(suggested.g)
             /\ last' = Attempt("computer", FALSE, FALSE, 0, NoMove)
             /\ posted' = posted
        ELSE \E mv \in suggested.moves :
                /\ pc' = pc
                /\ PlayMoves("computer", suggested.g, {mv})
                /\ posted' \in post_move_to_broker(Live', options.broker, mv, posted)

\* main, lines 853-858: the winner is announced and the loop left
AnnounceWinner ==
  /\ pc = "loop"
  /\ has_winner(Live, options.max_turns) # NoWinner
  /\ pc' = "over"
  /\ last' = Attempt("main", FALSE, FALSE, 0, NoMove)
  /\ prev' = Live
  /\ UNCHANGED <<board, next_player, turns_played, attacker_has_ai,
                 defender_has_ai, move_id, options, posted>>

Next == HumanTurn \/ BrokerTurn \/ ComputerTurn \/ AnnounceWinner

Spec == Init /\ [][Next]_vars

(* ------------------------------------------------------------------------ *)
(* Vocabulary of the properties, stated without the operators of the model. *)

Min(a, b) == IF a < b THEN a ELSE b

Abs(n) == IF n < 0 THEN 0 - n ELSE n

\* orthogonal neighbours
Adjacent(a, b) == Abs(a.row - b.row) + Abs(a.col - b.col) = 1

Chebyshev(a, b) ==
  IF Abs(a.row - b.row) > Abs(a.col - b.col)
  THEN Abs(a.row - b.row)
  ELSE Abs(a.col - b.col)

\* a unit after losing n health points: gone when none are left
Hurt(u, n) == IF u.health - n <= 0 THEN None ELSE Unit(u.player, u.type, u.health - n)

\* an enemy of the unit at c stands on an orthogonal neighbour of c
EnemyNextTo(b, c) ==
  \E e \in Cells : Adjacent(c, e) /\ b[e] # None /\ b[e].player # b[c].player

\* main is in its loop: the program may still call perform_move on this game
Running == pc = "loop"

\* the cells holding a unit of the side to move
OwnCells == {c \in Cells : board[c] # None /\ board[c].player = next_player}

\* the last turn attempt called perform_move, which accepted the move
Executed == last.called /\ last.ok

\* the game is met for the first time: it is a starting position or the
\* outcome of an executed action (a turn attempt that executed nothing left
\* the game it found, see C8 and C14)
FirstReached == Executed \/ last.op = "init"

\* both sides are played from the keyboard.  Such runs reach every game any
\* run reaches: a move the computer or the broker gets executed is one that
\* perform_move accepts, and the keyboard can enter it at the same turn
ManualRun == options.game_type = "AttackerVsDefender" /\ ~options.broker

\* the games on which the properties of the pure functions are evaluated:
\* each game of a running loop once, where a manual run first reaches it
Surveyed == Running /\ FirstReached /\ ManualRun

OnBoard(b, p, t) == \E c \in Cells : b[c] # None /\ b[c].player = p /\ b[c].type = t

(* ------------------------------------------------------------------------ *)
(* C1: between actions every unit on the board has health in 1..9.          *)
C1_HealthInRange ==
  \A c \in Cells : board[c] # None => board[c].health \in 1..9

\* an attack has just removed the unit it brought to 0 and left a wounded one
C1_Witness ==
  /\ Executed
  /\ Adjacent(last.move.src, last.move.dst)
  /\ prev.board[last.move.dst] # None
  /\ board[last.move.dst] = None
  /\ \E c \in Cells : board[c] # None /\ board[c].health < prev.board[c].health

(* C2: an attack is mutual and simultaneous: each side loses the table      *)
(* amount clamped to its health before the action, a unit reaching 0 is     *)
(* removed, and no other cell changes.                                      *)
AttackCase ==
  /\ Executed
  /\ Adjacent(last.move.src, last.move.dst)
  /\ prev.board[last.move.dst] # None
  /\ prev.board[last.move.dst].player # prev.board[last.move.src].player

C2_AttackMutual ==
  AttackCase =>
    LET s == last.move.src
        d == last.move.dst
        su == prev.board[s]
        du == prev.board[d]
    IN  board = [prev.board EXCEPT
                   ![s] = Hurt(su, Min(damage_table[du.type + 1][su.type + 1], su.health)),
                   ![d] = Hurt(du, Min(damage_table[su.type + 1][du.type + 1], du.health))]

\* the destination died of a clamped blow and still wounded the source
C2_Witness ==
  /\ AttackCase
  /\ board[last.move.dst] = None
  /\ prev.board[last.move.dst].health
       < damage_table[prev.board[last.move.src].type + 1][prev.board[last.move.dst].type + 1]
  /\ board[last.move.src] # None
  /\ board[last.move.src].health < prev.board[last.move.src].health

(* C3: a self-destruct removes the unit, takes min(2, health) from every    *)
(* other unit within Chebyshev distance 1, removes those reaching 0 and     *)
(* leaves every unit further away unchanged.                                *)
SelfDestructCase == Executed /\ last.move.src = last.move.dst

C3_SelfDestruct ==
  SelfDestructCase =>
    board = [c \in Cells |->
               IF c = last.move.src
               THEN None
               ELSE IF Chebyshev(c, last.move.src) = 1 /\ prev.board[c] # None
               THEN Hurt(prev.board[c], Min(2, prev.board[c].health))
               ELSE prev.board[c]]

\* on a board edge: a neighbour died, another survived wounded, a unit
\* two or more cells away stayed as it was
C3_Witness ==
  /\ SelfDestructCase
  /\ last.move.src.row \in {0, Dim - 1} \/ last.move.src.col \in {0, Dim - 1}
  /\ \E c \in Cells : /\ Chebyshev(c, last.move.src) = 1
                      /\ prev.board[c] # None /\ board[c] = None
  /\ \E c \in Cells : /\ Chebyshev(c, last.move.src) = 1
                      /\ board[c] # None /\ board[c].health = prev.board[c].health - 2
  /\ \E c \in Cells : Chebyshev(c, last.move.src) >= 2 /\ board[c] # None

\* the kinds whose movement is restricted
Restricted == {AI, Program, Firewall}

\* the last turn attempt executed a move to an empty orthogonal neighbour
StepCase ==
  /\ Executed
  /\ Adjacent(last.move.src, last.move.dst)
  /\ prev.board[last.move.dst] = None

\* the empty orthogonal neighbours of a cell
EmptyNextTo(b, c) == {d \in Cells : Adjacent(c, d) /\ b[d] = None}

(* C4: for a move of the active player's unit to an empty orthogonally      *)
(* adjacent cell, a Tech or a Virus is always accepted, engaged or not, and *)
(* an AI, Program or Firewall is rejected whenever an enemy unit is         *)
(* orthogonally adjacent to its source; so no executed move is one of an    *)
(* engaged AI, Program or Firewall.                                         *)
C4_EngagedMoves ==
  /\ Surveyed => \A s \in OwnCells : \A d \in EmptyNextTo(board, s) :
        LET r == perform_move(Live, CoordPair(s, d))
        IN  /\ board[s].type \in {Tech, Virus} =>
                 /\ r.ok
                 /\ r.g.board = [board EXCEPT ![s] = None, ![d] = board[s]]
            /\ board[s].type \in Restricted /\ EnemyNextTo(board, s) =>
                 /\ ~r.ok
                 /\ r.g.board = board
  /\ StepCase /\ prev.board[last.move.src].type \in Restricted
       => ~EnemyNextTo(prev.board, last.move.src)

\* a Tech or Virus has just left a cell next to an enemy, and a unit of the
\* side now to move is an AI, Program or Firewall held next to an enemy
\* with an empty cell beside it
C4_Witness ==
  /\ StepCase
  /\ prev.board[last.move.src].type \in {Tech, Virus}
  /\ EnemyNextTo(prev.board, last.move.src)
  /\ \E s \in OwnCells : /\ board[s].type \in Restricted
                         /\ EnemyNextTo(board, s)
                         /\ EmptyNextTo(board, s) # {}

\* the directions of a step: up is row - 1, left is col - 1
Up(s, d) == d.row = s.row - 1 /\ d.col = s.col
Left(s, d) == d.row = s.row /\ d.col = s.col - 1
Down(s, d) == d.row = s.row + 1 /\ d.col = s.col
Right(s, d) == d.row = s.row /\ d.col = s.col + 1

\* an AI, Program or Firewall of the side to move that is not engaged
FreeRestricted ==
  {s \in OwnCells : board[s].type \in Restricted /\ ~EnemyNextTo(board, s)}

(* C5, as the specification states it: an AI, Program or Firewall that is   *)
(* not engaged in combat may step to an empty adjacent cell only up or left *)
(* when it is a Defender's and only down or right when it is an Attacker's. *)
C5_AsStated ==
  \A s \in FreeRestricted : \A d \in EmptyNextTo(board, s) :
     is_valid_move(Live, CoordPair(s, d)).ok =>
        IF board[s].player = Defender
        THEN Up(s, d) \/ Left(s, d)
        ELSE Down(s, d) \/ Right(s, d)

(* C5, as the program decides it: an AI, Program or Firewall that is not    *)
(* engaged in combat steps to an empty adjacent cell exactly in its owner's *)
(* directions, which are up or left for the Attacker and down or right for  *)
(* the Defender; every other direction is rejected and changes nothing.     *)
C5_Directions ==
  /\ Running => \A s \in FreeRestricted : \A d \in EmptyNextTo(board, s) :
        LET r == perform_move(Live, CoordPair(s, d))
        IN  /\ r.ok <=> IF board[s].player = Attacker
                        THEN Up(s, d) \/ Left(s, d)
                        ELSE Down(s, d) \/ Right(s, d)
            /\ ~r.ok => r.g.board = board
  /\ StepCase /\ prev.board[last.move.src].type \in Restricted
       => IF prev.board[last.move.src].player = Attacker
          THEN Up(last.move.src, last.move.dst) \/ Left(last.move.src, last.move.dst)
          ELSE Down(last.move.src, last.move.dst) \/ Right(last.move.src, last.move.dst)

\* a Defender's AI, Program or Firewall has just stepped down or right, and
\* the Attacker, now to move, has a free unit of these kinds with an empty
\* cell above or to the left and another below or to the right
C5_Witness ==
  /\ StepCase
  /\ prev.board[last.move.src].type \in Restricted
  /\ prev.board[last.move.src].player = Defender
  /\ \E s \in FreeRestricted :
        /\ board[s].player = Attacker
        /\ \E d \in EmptyNextTo(board, s) : Up(s, d) \/ Left(s, d)
        /\ \E d \in EmptyNextTo(board, s) : Down(s, d) \/ Right(s, d)

\* the last turn attempt executed a move onto an adjacent unit of the same side
RepairCase ==
  /\ Executed
  /\ Adjacent(last.move.src, last.move.dst)
  /\ prev.board[last.move.dst] # None
  /\ prev.board[last.move.dst].player = prev.board[last.move.src].player

\* the orthogonal neighbours of c holding a unit of the same side
FriendsNextTo(b, c) ==
  {d \in Cells : Adjacent(c, d) /\ b[d] # None /\ b[d].player = b[c].player}

(* C6: a move onto an adjacent unit of the same owner is accepted iff the   *)
(* repair table gives the pair a value above 0 and the target's health is   *)
(* below 9; when accepted the target's health becomes min(9, health +       *)
(* table value), strictly more than before, and nothing else changes; when  *)
(* rejected nothing changes.                                                *)
C6_Repair ==
  /\ Running => \A s \in OwnCells : \A d \in FriendsNextTo(board, s) :
        LET r == perform_move(Live, CoordPair(s, d))
            amount == repair_table[board[s].type + 1][board[d].type + 1]
            after == Min(FullHealth, board[d].health + amount)
        IN  /\ r.ok <=> amount > 0 /\ board[d].health < FullHealth
            /\ r.ok => /\ after > board[d].health
                       /\ r.g.board = [board EXCEPT ![d].health = after]
            /\ ~r.ok => r.g.board = board
  /\ RepairCase =>
        LET d == last.move.dst
            amount == repair_table[prev.board[last.move.src].type + 1]
                                  [prev.board[d].type + 1]
        IN  /\ amount > 0
            /\ prev.board[d].health < FullHealth
            /\ board = [prev.board EXCEPT
                          ![d].health = Min(FullHealth, prev.board[d].health + amount)]

\* a repair has just been cut short at health 9, and the side now to move
\* has a unit next to a friend that it cannot repair at all
C6_Witness ==
  /\ RepairCase
  /\ board[last.move.dst].health = FullHealth
  /\ prev.board[last.move.dst].health
       + repair_table[prev.board[last.move.src].type + 1]
                     [prev.board[last.move.dst].type + 1] > FullHealth
  /\ \E s \in OwnCells : \E d \in FriendsNextTo(board, s) :
        repair_table[board[s].type + 1][board[d].type + 1] = 0

\* the orthogonal neighbours of c holding a unit of the other side
EnemiesNextTo(b, c) ==
  {d \in Cells : Adjacent(c, d) /\ b[d] # None /\ b[d].player # b[c].player}

(* C7: for every unit of the side to move, whatever its kind, its health    *)
(* and its engagement in combat, is_valid_move accepts the move onto its    *)
(* own cell and classifies it as self-destruct (3), and accepts the move    *)
(* onto an orthogonally adjacent enemy and classifies it as attack (2);     *)
(* perform_move then executes them.                                         *)
C7_AlwaysAccepted ==
  Surveyed => \A g \in {Live} : \A s \in OwnCells :
     /\ \A v \in {is_valid_move(g, CoordPair(s, s))} : v.ok /\ v.move_id = 3
     /\ \A r \in {perform_move(g, CoordPair(s, s))} :
           r.ok /\ r.g.board[s] = None
     /\ \A d \in EnemiesNextTo(board, s) :
           /\ \A v \in {is_valid_move(g, CoordPair(s, d))} :
                 v.ok /\ v.move_id = 2
           /\ \A r \in {perform_move(g, CoordPair(s, d))} :
                 r.ok /\ r.g.board[d] # board[d]

\* a wounded AI, Program or Firewall next to an enemy has just destroyed
\* itself, and the side now to move has a wounded unit of these kinds next
\* to an enemy
C7_Witness ==
  /\ SelfDestructCase
  /\ prev.board[last.move.src].type \in Restricted
  /\ prev.board[last.move.src].health < FullHealth
  /\ EnemyNextTo(prev.board, last.move.src)
  /\ \E s \in OwnCells : /\ board[s].type \in Restricted
                         /\ board[s].health < FullHealth
                         /\ EnemyNextTo(board, s)

\* what C8 lists: a coordinate outside the board, an empty source, a source
\* unit of the side not to move, a destination that is neither the source
\* nor one of its four orthogonal neighbours
OutsideBoard(c) == ~(c.row \in 0..(Dim - 1) /\ c.col \in 0..(Dim - 1))

Misaddressed(mv) ==
  \/ OutsideBoard(mv.src) \/ OutsideBoard(mv.dst)
  \/ board[mv.src] = None
  \/ board[mv.src].player # next_player
  \/ ~(mv.dst = mv.src \/ Adjacent(mv.src, mv.dst))

(* C8: perform_move fails and leaves the board, next_player, turns_played   *)
(* and both commander flags as they were whenever a coordinate is outside   *)
(* the board, the source is empty, the source unit is the other side's, or  *)
(* the destination is neither the source nor an orthogonal neighbour; and   *)
(* a turn attempt whose perform_move failed has changed none of them.       *)
C8_FailureChangesNothing ==
  /\ Surveyed => \A g \in {Live} : \A mv \in WireMoves :
        Misaddressed(mv) =>
           \A r \in {perform_move(g, mv)} :
               /\ ~r.ok
               /\ r.g.board = board
               /\ r.g.next_player = next_player
               /\ r.g.turns_played = turns_played
               /\ r.g.attacker_has_ai = attacker_has_ai
               /\ r.g.defender_has_ai = defender_has_ai
  /\ last.called /\ ~last.ok =>
        /\ board = prev.board
        /\ next_player = prev.next_player
        /\ turns_played = prev.turns_played
        /\ attacker_has_ai = prev.attacker_has_ai
        /\ defender_has_ai = prev.defender_has_ai

\* in the middle of a game the broker has just relayed a move with a
\* coordinate outside the board, which perform_move refused
C8_Witness ==
  /\ last.op = "broker"
  /\ last.called
  /\ ~last.ok
  /\ last.line = 336
  /\ turns_played > 0
  /\ \E c \in Cells : board[c] # None /\ board[c].health < FullHealth

(* C9: in human_turn and computer_turn a perform_move that succeeds is      *)
(* followed by exactly one next_turn: next_player is toggled and            *)
(* turns_played grows by exactly 1; after a perform_move that fails neither *)
(* changes.                                                                 *)
C9_TurnAdvancesOnce ==
  last.op \in {"human", "broker", "computer"} /\ last.called =>
     IF last.ok
     THEN /\ next_player = PlayerNext(prev.next_player)
          /\ next_player # prev.next_player
          /\ turns_played = prev.turns_played + 1
     ELSE /\ next_player = prev.next_player
          /\ turns_played = prev.turns_played

\* computer_turn has just executed the move it was given
C9_Witness ==
  /\ last.op = "computer"
  /\ Executed
  /\ board # prev.board

(* C10: below the turn limit has_winner returns None iff both AI units are  *)
(* on the board, Defender whenever the Attacker's AI is gone (also when     *)
(* both went in one action), and Attacker iff only the Defender's AI is     *)
(* gone.                                                                    *)
C10_Winner ==
  turns_played < options.max_turns =>
     LET attacker_ai == OnBoard(board, Attacker, AI)
         defender_ai == OnBoard(board, Defender, AI)
         winner == has_winner(Live, options.max_turns)
     IN  /\ winner = NoWinner <=> attacker_ai /\ defender_ai
         /\ ~attacker_ai => winner = Defender
         /\ winner = Attacker <=> attacker_ai /\ ~defender_ai

\* one action has just removed both AI units, below the turn limit
C10_Witness ==
  /\ Executed
  /\ turns_played < options.max_turns
  /\ OnBoard(prev.board, Attacker, AI) /\ OnBoard(prev.board, Defender, AI)
  /\ ~OnBoard(board, Attacker, AI) /\ ~OnBoard(board, Defender, AI)

(* C11: once turns_played has reached max_turns with both AI units on the   *)
(* board, has_winner returns Defender, the game is finished, main plays no  *)
(* further turn and announces the Defender.                                 *)
C11_TurnLimit ==
  /\ turns_played >= options.max_turns
       /\ OnBoard(board, Attacker, AI) /\ OnBoard(board, Defender, AI)
       => /\ has_winner(Live, options.max_turns) = Defender
          /\ is_finished(Live, options.max_turns)
          /\ ~TurnStarts
          /\ turns_played = options.max_turns
  /\ pc = "over" /\ OnBoard(board, Attacker, AI) /\ OnBoard(board, Defender, AI)
       => turns_played = options.max_turns

\* main has announced the winner of a game that ran into the turn limit
\* with both AI units on the board
C11_Witness ==
  /\ pc = "over"
  /\ turns_played = options.max_turns
  /\ OnBoard(board, Attacker, AI) /\ OnBoard(board, Defender, AI)
  /\ has_winner(Live, options.max_turns) = Defender

(* C12: for every pair of unit kinds and every target health h in 0..9,     *)
(* damage_amount is min(damage table value, h) and repair_amount is         *)
(* min(repair table value, 9 - h), so applying them stays in 0..9 and the   *)
(* clamp of Unit.mod_health changes nothing; the units of every executed    *)
(* attack lost exactly damage_amount.                                       *)
\* (the amounts depend on no state: they are compared where a run starts)
C12_Amounts ==
  /\ last.op = "init" =>
     \A a \in UnitTypes : \A t \in UnitTypes : \A h \in 0..FullHealth :
        \A p \in Players : \A q \in Players : \A hu \in {1, FullHealth} :
           LET u == Unit(p, a, hu)
               target == Unit(q, t, h)
               d == damage_amount(u, target)
               r == repair_amount(u, target)
           IN  /\ d = Min(damage_table[a + 1][t + 1], h)
               /\ r = Min(repair_table[a + 1][t + 1], FullHealth - h)
               /\ h - d \in 0..FullHealth
               /\ h + r \in 0..FullHealth
               /\ Unit_mod_health(target, -d).health = h - d
               /\ Unit_mod_health(target, r).health = h + r
  /\ AttackCase =>
        LET su == prev.board[last.move.src]
            du == prev.board[last.move.dst]
        IN  /\ damage_amount(su, du) \in 1..du.health
            /\ damage_amount(du, su) \in 1..su.health
            /\ board[last.move.dst] # None
                 => board[last.move.dst].health = du.health - damage_amount(su, du)
            /\ board[last.move.src] # None
                 => board[last.move.src].health = su.health - damage_amount(du, su)

\* the source of an attack had less health than the table value of the
\* return blow: it lost what it had and died, the destination survived
C12_Witness ==
  /\ AttackCase
  /\ prev.board[last.move.src].health
       < damage_table[prev.board[last.move.dst].type + 1][prev.board[last.move.src].type + 1]
  /\ board[last.move.src] = None
  /\ board[last.move.dst] # None

\* the weight of a unit kind in the heuristic
KindWeight(t) == IF t = AI THEN 9999 ELSE 3

\* W(side): the weights of the side's units, added cell by cell
RECURSIVE SideWeightFrom(_, _, _)
SideWeightFrom(b, p, n) ==
  IF n >= Dim * Dim
  THEN 0
  ELSE LET u == b[Coord(n \div Dim, n % Dim)]
       IN  (IF u # None /\ u.player = p THEN KindWeight(u.type) ELSE 0)
           + SideWeightFrom(b, p, n + 1)

SideWeight(b, p) == SideWeightFrom(b, p, 0)

\* the board with every unit given health h
WithHealth(b, h) ==
  [c \in Cells |-> IF b[c] = None THEN None ELSE Unit(b[c].player, b[c].type, h)]

(* C13: get_heuristic_e0 is W(Attacker) - W(Defender) while the Attacker's  *)
(* AI is on the board and W(Defender) - W(Attacker) otherwise, W(side)      *)
(* being 3 per Tech, Virus, Program and Firewall plus 9999 per AI of the    *)
(* side; it does not depend on the units' health, and it is 0 on the        *)
(* starting layout.                                                         *)
C13_Heuristic ==
  /\ Surveyed =>
        LET e0 == get_heuristic_e0(Live)
        IN  /\ e0 = IF OnBoard(board, Attacker, AI)
                    THEN SideWeight(board, Attacker) - SideWeight(board, Defender)
                    ELSE SideWeight(board, Defender) - SideWeight(board, Attacker)
            /\ \A h \in {1, FullHealth} :
                  get_heuristic_e0([Live EXCEPT !.board = WithHealth(board, h)]) = e0
  /\ get_heuristic_e0(NewGame) = 0

\* the Attacker's AI has just been removed while the Defender's stands, the
\* sides have unequal forces and a unit on the board is wounded
C13_Witness ==
  /\ Executed
  /\ OnBoard(prev.board, Attacker, AI)
  /\ ~OnBoard(board, Attacker, AI)
  /\ OnBoard(board, Defender, AI)
  /\ SideWeight(board, Defender) - SideWeight(board, Attacker) \notin {0, 9999}
  /\ \E c \in Cells : board[c] # None /\ board[c].health < FullHealth

\* two games agree on what C14 lists: every cell of the board, the side to
\* move, the turn count and both commander flags
SameGame(g, h) ==
  /\ \A c \in Cells : g.board[c] = h.board[c]
  /\ g.next_player = h.next_player
  /\ g.turns_played = h.turns_played
  /\ g.attacker_has_ai = h.attacker_has_ai
  /\ g.defender_has_ai = h.defender_has_ai

(* C14: suggest_move leaves the board, next_player, turns_played and both   *)
(* commander flags of the game it is called on as they were, whether it     *)
(* returns or raises; what minimax changes, it changes on the clone; and a  *)
(* computer turn that did not reach perform_move has changed none of them.  *)
C14_LiveUntouched ==
  /\ TurnStarts => SameGame(suggest_move(Live, options).g, Live)
  /\ last.op = "computer" /\ ~last.called => SameGame(Live, prev)

\* the search has just overwritten a cell of the clone before the computer
\* turn ended, and the live board is the one from before the turn
C14_Witness ==
  /\ last.op = "computer"
  /\ ~last.called
  /\ suggest_move(prev, options).board_copy.board # prev.board
  /\ board = prev.board

\* the greatest and the least element of a non-empty set of integers
MaxOf(S) == CHOOSE x \in S : \A y \in S : y <= x
MinOf(S) == CHOOSE x \in S : \A y \in S : x <= y

\* the state after one candidate move of the side to move: the move
\* executed by perform_move, the turn handed over
AfterMove(g, mv) == next_turn(perform_move(g, mv).g)

\* the minimax value the specification describes: the heuristic at a
\* terminal node, else the greatest (maximizing) or least (minimizing) of
\* the children's values, searched one level less deep with the role flipped
RECURSIVE MinimaxValue(_, _, _, _)
MinimaxValue(g, depth, maximizing, max_turns) ==
  IF depth = 0 \/ has_winner(g, max_turns) # NoWinner
  THEN get_heuristic_e0(g)
  ELSE LET values == {MinimaxValue(AfterMove(g, mv), depth - 1, ~maximizing, max_turns) :
                         mv \in SeqToSet(move_candidates(g).moves)}
       IN  IF values = {} THEN get_heuristic_e0(g)
           ELSE IF maximizing THEN MaxOf(values) ELSE MinOf(values)

(* C15, as the specification states it: minimax(depth, maximizing) returns  *)
(* the heuristic score with no move at a terminal node, and at an interior  *)
(* node the greatest of its children's scores when maximizing, the least    *)
(* when minimizing, each child being the state after one candidate move,    *)
(* searched at depth - 1 with the role flipped.  Stated for depths 0 and 1  *)
(* on the clone of every game in which a turn starts.                       *)
C15_AsStated ==
  TurnStarts =>
     \A depth \in {0, 1} : \A maximizing \in BOOLEAN :
        LET ret == minimax(clone(Live), depth, maximizing, options.max_turns).ret
        IN  /\ ret.kind \in {"tuple", "int"}
            /\ ret.value = MinimaxValue(Live, depth, maximizing, options.max_turns)

\* the options of the run with Options.alpha_beta set to ab
WithAlphaBeta(ab) ==
  [game_type |-> options.game_type, broker |-> options.broker,
   max_depth |-> options.max_depth, max_turns |-> options.max_turns,
   alpha_beta |-> ab]

\* the moves suggest_move may select on the live game under options opts:
\* none when it raises or reports no move
Selected(opts) ==
  LET suggested == suggest_move(Live, opts)
  IN  IF suggested.raised THEN {} ELSE suggested.moves \ {NoMove}

\* the minimax value of a root move for a search of the given depth: the
\* value of the state after the move, searched one level less deep by the
\* opponent (the heuristic of that state when no level is left)
MoveValue(g, mv, depth, max_turns) ==
  MinimaxValue(AfterMove(g, mv), IF depth > 0 THEN depth - 1 ELSE 0, FALSE,
               max_turns)

(* C16, as the specification states it: on the same state and at the same   *)
(* depth, the move selected with alpha_beta enabled and the move selected   *)
(* with alpha_beta disabled have the same minimax value.  Stated for the    *)
(* runs in which suggest_move returns a move under both settings.           *)
C16_AsStated ==
  TurnStarts =>
     \A with \in Selected(WithAlphaBeta(TRUE)) :
        \A without \in Selected(WithAlphaBeta(FALSE)) :
           LET depth == search_depth(Live, options.max_depth)
           IN  MoveValue(Live, with, depth, options.max_turns)
                  = MoveValue(Live, without, depth, options.max_turns)

(* C17, as the specification states it: in every game that is not finished *)
(* suggest_move completes normally and returns a move that is_valid_move    *)
(* accepts for the side to move on the live game; it returns no move only   *)
(* when that side has no candidate move at all; so no computer turn ends    *)
(* main with an exception.                                                  *)
C17_AsStated ==
  /\ TurnStarts =>
        LET suggested == suggest_move(Live, options)
        IN  /\ ~suggested.raised
            /\ \A mv \in suggested.moves \ {NoMove} : is_valid_move(Live, mv).ok
            /\ NoMove \in suggested.moves => move_candidates(Live).moves = << >>
  /\ pc # "TypeError"

\* a computer turn of a game that was not finished has ended main with the
\* TypeError raised inside suggest_move
C17_Witness ==
  /\ pc = "TypeError"
  /\ last.op = "computer"
  /\ has_winner(prev, options.max_turns) = NoWinner
  /\ move_candidates(prev).moves # << >>

\* the minimax values of the root candidates of game g for the search
\* suggest_move makes on it
RootValues(g) ==
  {MoveValue(g, mv, search_depth(g, options.max_depth), options.max_turns) :
      mv \in SeqToSet(move_candidates(g).moves)}

(* C18, as the specification states it: the move suggest_move returns, and  *)
(* computer_turn plays, is a root candidate whose minimax value is the best *)
(* (the greatest, the root being the maximizing player) among all root      *)
(* candidates.                                                              *)
C18_AsStated ==
  /\ TurnStarts =>
        \A mv \in Selected(options) :
           MoveValue(Live, mv, search_depth(Live, options.max_depth),
                     options.max_turns) = MaxOf(RootValues(Live))
  /\ last.op = "computer" /\ Executed =>
        MoveValue(prev, last.move, search_depth(prev, options.max_depth),
                  options.max_turns) = MaxOf(RootValues(prev))

\* computer_turn has just played a move whose value is neither the
\* greatest nor the least among the root candidates
C18_Witness ==
  /\ last.op = "computer"
  /\ Executed
  /\ LET value == MoveValue(prev, last.move, search_depth(prev, options.max_depth),
                            options.max_turns)
     IN  /\ value < MaxOf(RootValues(prev))
         /\ value > MinOf(RootValues(prev))

\* int((a + b) / 2) for non-negative a and b: the integer k with
\* 2k <= a + b < 2k + 2
IntAverage(a, b) == CHOOSE k \in 0..(a + b) : 2 * k <= a + b /\ a + b < 2 * k + 2

(* C19: suggest_move searches to options.max_depth when get_heuristic_e0()  *)
(* of the root is above 0, to options.min_depth when it is below 0 and to   *)
(* int((max_depth + min_depth) / 2) when it is 0.  Seen from outside: with  *)
(* max_depth 0 a computer turn gets through suggest_move exactly when the   *)
(* root heuristic is above 0 (depth 0), and ends in the search's TypeError  *)
(* when it is 0 (depth 1) or below 0 (depth 2).                             *)
C19_DepthBySign ==
  /\ TurnStarts /\ ~human_to_move =>
        LET initial_heuristic == get_heuristic_e0(Live)
        IN  \A max_depth \in 0..5 :
               search_depth(Live, max_depth) =
                  IF initial_heuristic > 0 THEN max_depth
                  ELSE IF initial_heuristic < 0 THEN MinDepth
                  ELSE IntAverage(max_depth, MinDepth)
  /\ last.op = "computer" /\ options.max_depth = 0 =>
        (pc = "TypeError" <=> get_heuristic_e0(prev) <= 0)

\* with max_depth 0 a computer turn on a root of negative heuristic has
\* searched to min_depth and ended in the TypeError
C19_Witness ==
  /\ last.op = "computer"
  /\ options.max_depth = 0
  /\ get_heuristic_e0(prev) < 0
  /\ pc = "TypeError"

\* the responses get_move_from_broker takes a move from
Accepted(g, resp) ==
  /\ ~resp.raises
  /\ resp.status = 200
  /\ resp.success
  /\ resp.has_data
  /\ resp.turn = g.turns_played + 1

(* C20: get_move_from_broker returns the move of the response exactly when  *)
(* the broker answered with status 200, success true, data present and      *)
(* data.turn = turns_played + 1, and None for every other response (wrong   *)
(* turn, no data, another status, success false, an exception); a broker    *)
(* poll that returned None leaves board, next_player, turns_played and the  *)
(* commander flags as they were.                                            *)
C20_BrokerMove ==
  /\ TurnStarts /\ options.broker /\ options.game_type = "AttackerVsDefender" =>
        \A g \in {Live} : \A resp \in BrokerResponses(turns_played) :
           /\ resp.has_data => resp.move # NoMove
           /\ get_move_from_broker(g, resp) =
                 IF Accepted(g, resp) THEN resp.move ELSE NoMove
  /\ last.op = "broker" /\ ~last.called => SameGame(Live, prev)

\* a broker poll in mid-game that returned None
C20_Witness ==
  /\ last.op = "broker"
  /\ ~last.called
  /\ turns_played > 0
  /\ pc = "loop"

\* how many units a side has on a board
UnitsOf(b, p) == Cardinality({c \in Cells : b[c] # None /\ b[c].player = p})

(* C21: an executed move to an empty orthogonally adjacent cell relocates   *)
(* the unit, its owner, kind and health as they were: afterwards the        *)
(* destination holds that unit, the source is empty, every other cell is    *)
(* as before, both commander flags are as before and each side has as many  *)
(* units as before.                                                         *)
C21_PlainMove ==
  StepCase =>
     /\ board[last.move.dst] = prev.board[last.move.src]
     /\ board[last.move.src] = None
     /\ \A c \in Cells \ {last.move.src, last.move.dst} : board[c] = prev.board[c]
     /\ attacker_has_ai = prev.attacker_has_ai
     /\ defender_has_ai = prev.defender_has_ai
     /\ \A p \in Players : UnitsOf(board, p) = UnitsOf(prev.board, p)

\* in mid-game a wounded unit has just stepped to an empty neighbour
C21_Witness ==
  /\ StepCase
  /\ prev.turns_played > 0
  /\ prev.board[last.move.src].health < FullHealth
  /\ board[last.move.dst].health < FullHealth

\* the node minimax was called on, as the call leaves it
NodeAfterSearch(g, depth, max_turns) == minimax(clone(g), depth, TRUE, max_turns).g

(* C22: within minimax every candidate of a node is applied to a fresh      *)
(* clone of the node, so the node's own board is, after candidates have     *)
(* been explored, the board the node was entered with, and the next         *)
(* sibling is explored from that board.                                     *)
C22_AsStated ==
  TurnStarts =>
     \A depth \in 1..MinDepth :
        NodeAfterSearch(Live, depth, options.max_turns).board = board

\* a computer turn has searched, and the board the search was entered with
\* holds a unit on a cell that was empty when the search began
C22_Witness ==
  /\ last.op = "computer"
  /\ \E c \in Cells :
        /\ prev.board[c] = None
        /\ suggest_move(prev, options).board_copy.board[c] # None

\* the action kind of a move, read off the board alone: 3 self-destruct,
\* 0 step to an empty cell, 1 repair of a friend, 2 attack on an enemy
KindOnBoard(b, mv) ==
  IF mv.dst = mv.src THEN 3
  ELSE IF b[mv.dst] = None THEN 0
  ELSE IF b[mv.dst].player = b[mv.src].player THEN 1
  ELSE 2

\* the game with another value left in move_id
WithMoveId(g, id) == [g EXCEPT !.move_id = id]

\* the moves of the side to move that stay near their source
NearMoves == UNION {{CoordPair(s, d) : d \in NearDsts(s) \cap Cells} : s \in OwnCells}

(* C23: what perform_move does depends on the board, the side to move and   *)
(* the move only: on two games that differ in the stored move_id alone it   *)
(* returns the same success flag and leaves the same board, side to move,   *)
(* turn count and commander flags; an accepted move is executed as the kind *)
(* its own classification gives (the kind the board shows), never as the    *)
(* kind an earlier is_valid_move call left behind; a rejected move changes  *)
(* nothing.  Checked on every game a turn starts with, for every value of   *)
(* move_id.                                                                 *)
C23_StaleMoveId ==
  TurnStarts /\ Surveyed =>
     \A g \in {Live} : \A mv \in NearMoves :
        \A r \in {perform_move(g, mv)} :
           /\ \A id \in 0..3 :
                 \A q \in {perform_move(WithMoveId(g, id), mv)} :
                    q.ok = r.ok /\ SameGame(q.g, r.g) /\ (q.ok => q.g.move_id = r.g.move_id)
           /\ r.ok => r.g.move_id = KindOnBoard(board, mv)
           /\ ~r.ok => SameGame(r.g, g)

\* a turn starts with a move_id left by an earlier call that differs from
\* the kind of a move the side to move can make
C23_Witness ==
  /\ TurnStarts
  /\ last.op # "init"
  /\ \E mv \in NearMoves :
        /\ perform_move(Live, mv).ok
        /\ KindOnBoard(board, mv) # move_id
        /\ move_id # 0

\* the cells of a board holding the AI of a side
CommanderCells(b, p) ==
  {c \in Cells : b[c] # None /\ b[c].player = p /\ b[c].type = AI}

(* C24: in every state reached from the starting layout by perform_move     *)
(* calls each side has at most one AI on the board, _attacker_has_ai and    *)
(* _defender_has_ai are true exactly while the side's AI is on the board,   *)
(* and a flag that is false was false or became false in the last step: it  *)
(* is never set again.                                                      *)
C24_CommanderFlags ==
  /\ \A p \in Players : Cardinality(CommanderCells(board, p)) <= 1
  /\ attacker_has_ai <=> CommanderCells(board, Attacker) # {}
  /\ defender_has_ai <=> CommanderCells(board, Defender) # {}
  /\ attacker_has_ai => prev.attacker_has_ai
  /\ defender_has_ai => prev.defender_has_ai

\* the Defender's AI fell to an executed action and main has since gone
\* through its loop once more
C24_Witness ==
  /\ pc = "over"
  /\ ~prev.defender_has_ai
  /\ ~defender_has_ai
  /\ attacker_has_ai
  /\ CommanderCells(board, Defender) = {}

(* C25: in every state reached through the turn loop next_player is the     *)
(* Attacker exactly when turns_played is even: the Attacker moves first and *)
(* the sides alternate, one executed action per turn.                       *)
C25_Alternation ==
  /\ next_player = Attacker <=> turns_played % 2 = 0
  /\ prev.next_player = Attacker <=> prev.turns_played % 2 = 0
  /\ Executed => /\ turns_played = prev.turns_played + 1
                 /\ next_player # prev.next_player
                 /\ prev.board[last.move.src].player = prev.next_player

\* two executed actions after the start of the run: the Defender has just
\* played and the Attacker is to move again
C25_Witness ==
  /\ Executed
  /\ prev.next_player = Defender
  /\ next_player = Attacker
  /\ turns_played = 2

(* C26: in every reachable state where has_winner returns None the side to  *)
(* move still has its AI on the board, the AI's move onto its own cell is   *)
(* among move_candidates and perform_move accepts it, so the candidates are *)
(* never empty; main never takes the exit(1) branch of a computer turn      *)
(* without a move.                                                          *)
C26_NeverStalemate ==
  /\ TurnStarts =>
        \A cands \in {SeqToSet(move_candidates(Live).moves)} :
           /\ cands # {}
           /\ CommanderCells(board, next_player) # {}
           /\ \A c \in CommanderCells(board, next_player) :
                 /\ CoordPair(c, c) \in cands
                 /\ perform_move(Live, CoordPair(c, c)).ok
  /\ pc # "exit1"

\* a computer turn has just been played in mid-game and the side now to move
\* has an AI that can step to none of its neighbours
C26_Witness ==
  /\ TurnStarts
  /\ last.op = "computer"
  /\ Executed
  /\ turns_played > 1
  /\ \E c \in CommanderCells(board, next_player) :
        \A d \in EmptyNextTo(board, c) : ~perform_move(Live, CoordPair(c, d)).ok

\* the side whose commander flag is down while the other side's is up, or
\* NoWinner when there is no such side
FallenAlone(g) ==
  IF ~g.attacker_has_ai /\ g.defender_has_ai THEN Attacker
  ELSE IF ~g.defender_has_ai /\ g.attacker_has_ai THEN Defender
  ELSE NoWinner

\* C27 as stated: has_winner never returns the side whose commander alone
\* has fallen
C27_AsStated ==
  FallenAlone(Live) # NoWinner =>
     has_winner(Live, options.max_turns) # FallenAlone(Live)

(* C27: below the turn limit has_winner never returns the side whose        *)
(* commander alone has fallen, and returns the other side; once             *)
(* turns_played has reached max_turns it returns the Defender whatever the  *)
(* commander flags are, also when the Defender's commander alone has        *)
(* fallen.                                                                  *)
C27_FlagsBelowLimit ==
  /\ turns_played < options.max_turns /\ FallenAlone(Live) # NoWinner =>
        has_winner(Live, options.max_turns) = PlayerNext(FallenAlone(Live))
  /\ turns_played >= options.max_turns =>
        has_winner(Live, options.max_turns) = Defender

\* the Attacker has removed the Defender's AI by the action that reached the
\* turn limit, and main has announced the winner
C27_Witness ==
  /\ pc = "over"
  /\ turns_played >= options.max_turns
  /\ attacker_has_ai
  /\ ~defender_has_ai
  /\ has_winner(Live, options.max_turns) = Defender

(* C28: in every reachable state where exactly one commander has fallen     *)
(* get_heuristic_e0 is at least 9999 - 15, whichever side lost it, and in   *)
(* every reachable state where both commanders stand its absolute value is  *)
(* at most 15.                                                              *)
C28_HeuristicMagnitude ==
  Running =>
     \A e0 \in {get_heuristic_e0(Live)} :
        /\ FallenAlone(Live) # NoWinner => e0 >= 9999 - 15
        /\ attacker_has_ai /\ defender_has_ai => e0 >= 0 - 15 /\ e0 <= 15

\* the Defender's AI has just fallen, the Attacker's stands, and the score
\* is positive though below 9999: the Defender has more units left
C28_Witness ==
  /\ Running
  /\ Executed
  /\ prev.defender_has_ai
  /\ FallenAlone(Live) = Defender
  /\ get_heuristic_e0(Live) < 9999
  /\ get_heuristic_e0(Live) > 0

\* a game as it stands once its turn count has grown to n
AtTurn(g, n) == [g EXCEPT !.turns_played = n]

\* the last computer move and the turn count it was posted with are what
\* the broker holds
JustPosted ==
  /\ last.op = "computer"
  /\ Executed
  /\ posted.has_data
  /\ posted.turn = turns_played
  /\ posted.move = last.move

(* C29: when two instances start a turn with equal turns_played and one     *)
(* plays a computer move, the number it posts is its turns_played after     *)
(* next_turn, which is the number the peer expects, so the peer's           *)
(* get_move_from_broker returns the relayed move and perform_move accepts   *)
(* it; once the peer has applied it, the same message is refused by the     *)
(* peer and by the instance that posted it, at that turn count and at every *)
(* later one.                                                               *)
C29_Relay ==
  /\ last.op = "computer" /\ Executed =>
        /\ post_move_to_broker(Live, TRUE, last.move, NoData)
              = {NoData, [has_data |-> TRUE, move |-> last.move,
                          turn |-> prev.turns_played + 1]}
        /\ post_move_to_broker(Live, FALSE, last.move, posted) = {posted}
        /\ posted # NoData => options.broker
  /\ JustPosted =>
        \A peer \in {prev} : \A resp \in {Relayed(posted)} :
           /\ get_move_from_broker(peer, resp) = last.move
           /\ perform_move(peer, last.move).ok
           /\ \A n \in turns_played..options.max_turns :
                 /\ get_move_from_broker(AtTurn(AfterMove(peer, last.move), n), resp)
                       = NoMove
                 /\ get_move_from_broker(AtTurn(Live, n), resp) = NoMove
  /\ posted.has_data =>
        /\ posted.turn <= turns_played
        /\ get_move_from_broker(Live, Relayed(posted)) = NoMove

\* the instance that posted a computer move polls the broker for the other
\* side's move, is handed its own message again and takes no move from it
C29_Witness ==
  /\ last.op = "broker"
  /\ ~last.called
  /\ posted.has_data
  /\ posted.turn = turns_played
  /\ get_move_from_broker(Live, Relayed(posted)) = NoMove

\* main is sequential code: once a turn has returned with a winner on the
\* board, the test at the top of the loop runs and announces it
FairSpec == Spec /\ WF_vars(AnnounceWinner)

\* every turn that starts yields, sooner or later, an executed action: the
\* turn passes to the other side, which only next_turn brings about
EveryTurnPlayed ==
  \A p \in Players : [](TurnStarts /\ next_player = p => <>(next_player # p))

(* C30: turns_played never exceeds options.max_turns; no action is executed *)
(* in a state where has_winner is not None; has_winner is not None once     *)
(* max_turns actions have been executed; and, provided every turn that      *)
(* starts eventually yields an executed action, the loop ends with the      *)
(* winner announced.                                                        *)
C30_EndsWithWinner ==
  /\ [](turns_played <= options.max_turns)
  /\ [](Executed => has_winner(prev, options.max_turns) = NoWinner)
  /\ [](turns_played >= options.max_turns =>
           has_winner(Live, options.max_turns) # NoWinner)
  /\ EveryTurnPlayed => <>(pc = "over")

\* the limit was reached by executed actions, each turn having been played,
\* and main has announced the winner
C30_Witness ==
  /\ pc = "over"
  /\ turns_played = options.max_turns
  /\ prev.turns_played = options.max_turns
  /\ attacker_has_ai
  /\ defender_has_ai

====
